---- MODULE Spec2Model ----
(***************************************************************************)
(* UTF-8 <-> UTF-16 marshalling of packages/cinterop/src/jvm/jni/utils.cpp *)
(*                                                                         *)
(*   to_jstring(env, StringData)        storage string -> runtime string   *)
(*   JStringAccessor(env, jstring, b)   runtime string -> storage string   *)
(*                                                                         *)
(* The transcoding engine Utf8x16<jchar, JcharTraits> lives in utf8.hpp,   *)
(* which utils.cpp includes; its four operations are modelled after the    *)
(* engine contract (section 4.3 of the specification, error codes of       *)
(* str_to_hex_error_code_to_message).  Bytes and code units are integers   *)
(* and every conversion is computed bit for bit.  A buffer position is the *)
(* number of elements before it, so in_begin = Len(input) means            *)
(* in_begin == in_end.                                                     *)
(***************************************************************************)
EXTENDS Integers, Sequences, FiniteSets, TLC

\* ------------------------------------------------------------------------
\* Bounds of the explored inputs
\* ------------------------------------------------------------------------

\* Longest tail (in code points, raw units or raw bytes) after the padding.
MaxTail == 2

\* How far the padding may exceed the 48 threshold.
MaxOver == 1

\* How far the padding may stay below the 48 threshold.
MaxUnder == 4

\* ------------------------------------------------------------------------
\* Program constants and integer widths
\* ------------------------------------------------------------------------

stack_buf_size == 48

max_project_size == 48

\* Largest jsize (a signed 32-bit integer).
JSIZE_MAX == 2147483647

\* Largest size_t the model represents.  The platform's size_t is at least as
\* wide as jsize; the model checker's integers are 32-bit, so the model gives
\* size_t the range 0..2^31-1, which every size of the explored inputs is far
\* below.
SIZE_MAX == 2147483647

\* realm/util/safe_int_ops.hpp, size_t += size_t: TRUE when the sum overflows.
int_add_with_overflow_detect(lval, rval) == lval > SIZE_MAX - rval

\* realm/util/safe_int_ops.hpp, integer -> size_t: TRUE when the value is lost.
int_cast_with_overflow_detect(from) == from < 0 \/ from > SIZE_MAX

\* ------------------------------------------------------------------------
\* Reference encodings of a Unicode text (a sequence of code points)
\* ------------------------------------------------------------------------

Utf8OfCp(c) ==
    IF c < 128 THEN <<c>>
    ELSE IF c < 2048 THEN <<192 + c \div 64, 128 + (c % 64)>>
    ELSE IF c < 65536
         THEN <<224 + c \div 4096, 128 + ((c \div 64) % 64), 128 + (c % 64)>>
    ELSE <<240 + c \div 262144, 128 + ((c \div 4096) % 64),
           128 + ((c \div 64) % 64), 128 + (c % 64)>>

Utf16OfCp(c) ==
    IF c < 65536 THEN <<c>>
    ELSE <<55296 + (c - 65536) \div 1024, 56320 + ((c - 65536) % 1024)>>

RECURSIVE Flat(_, _)
Flat(Enc(_), t) == IF t = <<>> THEN <<>> ELSE Enc(Head(t)) \o Flat(Enc, Tail(t))

Utf8Of(t) == Flat(Utf8OfCp, t)

Utf16Of(t) == Flat(Utf16OfCp, t)

\* ------------------------------------------------------------------------
\* Transcoding engine Utf8x16<jchar, JcharTraits>
\* ------------------------------------------------------------------------

IsCont(b) == b \in 128..191

\* One round of the to_utf16 loop at input position in with out already
\* written: [n |-> bytes consumed, u |-> units produced, code |-> failure].
\* n = 0 with code = 0 means the output buffer is full.
Utf16Step(s, in, room) ==
    LET v1 == s[in + 1]
        left == Len(s) - in
        Stop(c) == [n |-> 0, u |-> <<>>, code |-> c]
    IN  IF room = 0 THEN Stop(0)
        ELSE IF v1 < 128 THEN [n |-> 1, u |-> <<v1>>, code |-> 0]
        ELSE IF v1 < 192 THEN Stop(1)
        ELSE IF v1 < 224 THEN
            IF left < 2 THEN Stop(2)
            ELSE IF ~IsCont(s[in + 2]) THEN Stop(3)
            ELSE LET v == (v1 % 32) * 64 + (s[in + 2] % 64)
                 IN  IF v < 128 THEN Stop(4) ELSE [n |-> 2, u |-> <<v>>, code |-> 0]
        ELSE IF v1 < 240 THEN
            IF left < 3 THEN Stop(5)
            ELSE IF ~IsCont(s[in + 2]) \/ ~IsCont(s[in + 3]) THEN Stop(6)
            ELSE LET v == (v1 % 16) * 4096 + (s[in + 2] % 64) * 64
                          + (s[in + 3] % 64)
                 IN  IF v < 2048 THEN Stop(7)
                     ELSE IF v \in 55296..57343 THEN Stop(8)
                     ELSE [n |-> 3, u |-> <<v>>, code |-> 0]
        ELSE IF room = 1 THEN Stop(0)
        ELSE IF v1 < 248 THEN
            IF left < 4 THEN Stop(9)
            ELSE IF ~IsCont(s[in + 2]) \/ ~IsCont(s[in + 3]) \/ ~IsCont(s[in + 4])
                 THEN Stop(10)
            ELSE LET v == (v1 % 8) * 262144 + (s[in + 2] % 64) * 4096
                          + (s[in + 3] % 64) * 64 + (s[in + 4] % 64)
                 IN  IF v < 65536 THEN Stop(11)
                     ELSE IF v >= 1114112 THEN Stop(12)
                     ELSE [n |-> 4, code |-> 0,
                           u |-> <<55296 + (v - 65536) \div 1024,
                                   56320 + ((v - 65536) % 1024)>>]
        ELSE Stop(13)

\* to_utf16(in_begin, in_end, out_begin, out_end): transcodes as much of
\* s[in+1..] as fits behind out in a buffer of out_end units.  Returns the
\* advanced cursors and the return code: 0 when all input was consumed or
\* the next character did not fit, non-zero on invalid input.
RECURSIVE to_utf16(_, _, _, _)
to_utf16(s, in, out, out_end) ==
    IF in = Len(s) THEN [in |-> in, out |-> out, retcode |-> 0]
    ELSE LET r == Utf16Step(s, in, out_end - Len(out))
         IN  IF r.n = 0 THEN [in |-> in, out |-> out, retcode |-> r.code]
             ELSE to_utf16(s, in + r.n, out \o r.u, out_end)

\* find_utf16_buf_size(in_begin, in_end, error_code): the number of UTF-16
\* units needed for s[in+1..]; stops early (in < Len(s)) at a lead byte that
\* is invalid or whose sequence is cut off by the end of the input.
RECURSIVE find_utf16_buf_size(_, _, _)
find_utf16_buf_size(s, in, num_out) ==
    IF in = Len(s) THEN [in |-> in, size |-> num_out, error_code |-> 0]
    ELSE IF int_add_with_overflow_detect(num_out, 1)
         THEN [in |-> in, size |-> num_out, error_code |-> 1]
    ELSE LET v1 == s[in + 1]
             left == Len(s) - in
             n1 == num_out + 1
         IN  IF v1 < 128 THEN find_utf16_buf_size(s, in + 1, n1)
             ELSE IF v1 < 192 THEN [in |-> in, size |-> n1, error_code |-> 2]
             ELSE IF v1 < 224 THEN
                 IF left < 2 THEN [in |-> in, size |-> n1, error_code |-> 3]
                 ELSE find_utf16_buf_size(s, in + 2, n1)
             ELSE IF v1 < 240 THEN
                 IF left < 3 THEN [in |-> in, size |-> n1, error_code |-> 4]
                 ELSE find_utf16_buf_size(s, in + 3, n1)
             ELSE IF v1 < 248 THEN
                 IF int_add_with_overflow_detect(n1, 1)
                 THEN [in |-> in, size |-> n1, error_code |-> 5]
                 ELSE IF left < 4 THEN [in |-> in, size |-> n1 + 1, error_code |-> 6]
                 ELSE find_utf16_buf_size(s, in + 4, n1 + 1)
             ELSE [in |-> in, size |-> n1, error_code |-> 7]

IsSurrogate(v) == v \in 55296..57343

IsLow(v) == v \in 56320..57343

\* One round of the to_utf8 loop: [n |-> units consumed, b |-> bytes
\* produced, code |-> error code, invalid |-> input validity was the
\* blocker].  The output-space test of each branch precedes its validity
\* tests (codes 1-4 before 5-7).
Utf8Step(s, in, room) ==
    LET v1 == s[in + 1]
        Stop(c, inv) == [n |-> 0, b |-> <<>>, code |-> c, invalid |-> inv]
        Emit(k, bytes) == [n |-> k, b |-> bytes, code |-> 0, invalid |-> FALSE]
    IN  IF v1 < 128 THEN
            IF room < 1 THEN Stop(1, FALSE) ELSE Emit(1, <<v1>>)
        ELSE IF v1 < 2048 THEN
            IF room < 2 THEN Stop(2, FALSE)
            ELSE Emit(1, <<192 + v1 \div 64, 128 + (v1 % 64)>>)
        ELSE IF ~IsSurrogate(v1) THEN
            IF room < 3 THEN Stop(3, FALSE)
            ELSE Emit(1, <<224 + v1 \div 4096, 128 + ((v1 \div 64) % 64),
                           128 + (v1 % 64)>>)
        ELSE IF room < 4 THEN Stop(4, FALSE)
        ELSE IF v1 >= 56320 THEN Stop(5, TRUE)
        ELSE IF in + 1 = Len(s) THEN Stop(6, TRUE)
        ELSE IF ~IsLow(s[in + 2]) THEN Stop(7, TRUE)
        ELSE LET v == 65536 + (v1 - 55296) * 1024 + (s[in + 2] - 56320)
             IN  Emit(2, <<240 + v \div 262144, 128 + ((v \div 4096) % 64),
                           128 + ((v \div 64) % 64), 128 + (v % 64)>>)

\* to_utf8(in_begin, in_end, out_begin, out_end, error_code): ok is FALSE
\* only when invalid input stopped the conversion; a stop for lack of output
\* space returns ok with in < Len(s) and error_code in 1..4.  error_code
\* keeps its incoming value ec when the loop never stops early.
RECURSIVE to_utf8(_, _, _, _, _)
to_utf8(s, in, out, out_end, ec) ==
    IF in = Len(s) THEN [in |-> in, out |-> out, ok |-> TRUE, error_code |-> ec]
    ELSE LET r == Utf8Step(s, in, out_end - Len(out))
         IN  IF r.n = 0
             THEN [in |-> in, out |-> out, ok |-> ~r.invalid, error_code |-> r.code]
             ELSE to_utf8(s, in + r.n, out \o r.b, out_end, ec)

\* find_utf8_buf_size(in_begin, in_end, error_code): the number of bytes
\* needed for s[in+1..]; a surrogate unit is counted as the first half of a
\* pair without looking at the second, and the count stops (in < Len(s)) at
\* a surrogate that is the last unit.
RECURSIVE find_utf8_buf_size(_, _, _)
find_utf8_buf_size(s, in, num_out) ==
    IF in = Len(s) THEN [in |-> in, size |-> num_out]
    ELSE LET v == s[in + 1]
             k == IF v < 128 THEN 1 ELSE IF v < 2048 THEN 2
                  ELSE IF ~IsSurrogate(v) THEN 3 ELSE 4
         IN  IF k = 4 /\ in + 1 = Len(s) THEN [in |-> in, size |-> num_out]
             ELSE IF int_add_with_overflow_detect(num_out, k)
                  THEN [in |-> in, size |-> num_out]
             ELSE find_utf8_buf_size(s, in + (IF k = 4 THEN 2 ELSE 1), num_out + k)

\* ------------------------------------------------------------------------
\* State
\* ------------------------------------------------------------------------

VARIABLES
    text,           \* the Unicode text the first call's input encodes, or Raw
    stage,          \* 1: first call, 2: the opposite call on its result
    fn,             \* the running function: "to_jstring" or "JStringAccessor"
    pc,             \* position in it
    str,            \* to_jstring: the StringData argument
    in_begin,       \* to_jstring: input cursor
    out_buf,        \* to_jstring: where out_begin points, "stack" or "heap"
    out_end,        \* to_jstring: capacity of that buffer (out_end - out_begin)
    out,            \* to_jstring: units written (out_curr - out_begin = Len(out))
    result,         \* to_jstring: the returned jstring
    jstr,           \* JStringAccessor: the jstring argument
    delete_jstring_ref, \* JStringAccessor: the release flag
    chars,          \* JStringAccessor: the JStringCharsAccessor local
    buf_size,       \* JStringAccessor: allocated size of the byte buffer
    m_is_null,      \* JStringAccessor member
    m_data,         \* JStringAccessor member: the whole allocation
    m_size,         \* JStringAccessor member
    consumed,       \* input position where the last engine call stopped
    calls,          \* number of calls of each runtime / allocator / engine entry
    error           \* the exception leaving the call, or NoError

vars == <<text, stage, fn, pc, str, in_begin, out_buf, out_end, out, result,
          jstr, delete_jstring_ref, chars, buf_size, m_is_null, m_data, m_size,
          consumed, calls, error>>

encVars == <<str, in_begin, out_buf, out_end, out, result>>

decVars == <<jstr, delete_jstring_ref, chars, buf_size, m_is_null, m_data, m_size>>

Raw == <<-1>>

NullString == [is_null |-> TRUE, data |-> <<>>]

StringData(bytes) == [is_null |-> FALSE, data |-> bytes]

NullHandle == [null |-> TRUE, chars |-> <<>>]

Handle(units) == [null |-> FALSE, chars |-> units]

NoChars == [acquired |-> FALSE, data |-> <<>>, size |-> 0]

NoError == [kind |-> "none", msg |-> "", code |-> 0]

NoCalls == [GetStringChars |-> 0, ReleaseStringChars |-> 0, DeleteLocalRef |-> 0,
            NewString |-> 0, new_jchar |-> 0, new_char |-> 0, engine |-> 0]

Called(c, name) == [c EXCEPT ![name] = @ + 1]

\* ------------------------------------------------------------------------
\* Inputs
\* ------------------------------------------------------------------------

\* U+0000, U+0080, U+07FF, U+0800, U+FFFF, U+10000, U+10FFFF
CodePoints == {0, 128, 2047, 2048, 65535, 65536, 1114111}

\* 'A', U+20AC, a high surrogate, a low surrogate
Units16 == {65, 8364, 55357, 56832}

\* 'A', a continuation byte, lead bytes of 2, 3 and 4 bytes, an invalid lead
Bytes8 == {65, 128, 195, 226, 240, 248}

\* Values an uninitialised element of a fresh allocation may hold.
Uninit == {0, 170}

Pad(n) == [i \in 1..n |-> 65]

PadLens == {0} \cup ((stack_buf_size - MaxUnder)..(stack_buf_size + MaxOver))

Tails(A) == UNION {[1..k -> A] : k \in 0..MaxTail}

Padded(A) == {Pad(p) \o t : p \in PadLens, t \in Tails(A)}

\* jsize GetStringLength(jstring): the length of the string; the runtime's
\* jsize is a signed 32-bit integer, and get_size provides for a value that
\* does not fit size_t.
GetStringLength(s) == {Len(s.chars), -1}

\* ------------------------------------------------------------------------
\* to_jstring
\* ------------------------------------------------------------------------

Throw(kind, msg, code) == [kind |-> kind, msg |-> msg, code |-> code]

\* Mutant of StrIsNull: the null test is lost.
StrNeverNull(s) == FALSE

\* str.is_null()
StrIsNull(s) == s.is_null

\* Mutant of FitsStack: the threshold test is strict.
FitsStackStrict(size) == size < stack_buf_size

\* str.size() <= stack_buf_size
FitsStack(size) == size <= stack_buf_size

\* Mutant of DynSize: the heap buffer gets the size of the stack buffer.
DynSizeOfStack(size) == stack_buf_size

\* size after int_add_with_overflow_detect(size, stack_buf_size): the number
\* of units of the heap buffer.
DynSize(size) == size + stack_buf_size

\* Mutant of OutSize: the capacity of the buffer instead of what was written.
OutSizeOfBuffer(out_curr, out_begin) == out_end - out_begin

\* out_curr - out_begin, the length handed to NewString
OutSize(out_curr, out_begin) == out_curr - out_begin

\* The n units NewString reads from a buffer holding the written units w;
\* g is what the unwritten rest of the buffer holds.
Units(w, n, g) ==
    IF n <= Len(w) THEN SubSeq(w, 1, n) ELSE w \o [i \in 1..(n - Len(w)) |-> g]

ToJstringNull ==
    /\ fn = "to_jstring" /\ pc = "entry"
    /\ StrIsNull(str)
    /\ result' = NullHandle
    /\ pc' = "returned"
    /\ UNCHANGED <<text, stage, fn, str, in_begin, out_buf, out_end, out,
                   consumed, calls, error>>
    /\ UNCHANGED decVars

ToJstringShort ==
    /\ fn = "to_jstring" /\ pc = "entry"
    /\ ~StrIsNull(str)
    /\ FitsStack(Len(str.data))
    /\ \E r \in {to_utf16(str.data, in_begin, out, out_end)} :
           /\ in_begin' = r.in
           /\ out' = r.out
           /\ consumed' = r.in
           /\ calls' = Called(calls, "engine")
           /\ IF r.retcode # 0
              THEN /\ error' = Throw("runtime_error",
                         "Failure when converting short string to UTF-16", r.retcode)
                   /\ pc' = "raised"
              ELSE /\ error' = error
                   /\ pc' = IF r.in = Len(str.data) THEN "transcode_complete"
                            ELSE "size"
    /\ UNCHANGED <<text, stage, fn, str, out_buf, out_end, result>>
    /\ UNCHANGED decVars

ToJstringSize ==
    /\ fn = "to_jstring"
    /\ \/ pc = "entry" /\ ~StrIsNull(str) /\ ~FitsStack(Len(str.data))
       \/ pc = "size"
    /\ \E r \in {find_utf16_buf_size(str.data, in_begin, 0)} :
           /\ consumed' = r.in
           /\ IF r.in # Len(str.data)
              THEN /\ error' = Throw("runtime_error",
                         "Failure when computing UTF-16 size", r.error_code)
                   /\ pc' = "raised"
                   /\ calls' = Called(calls, "engine")
                   /\ UNCHANGED <<out_buf, out_end>>
              ELSE IF int_add_with_overflow_detect(r.size, stack_buf_size)
              THEN /\ error' = Throw("runtime_error", "String size overflow", 0)
                   /\ pc' = "raised"
                   /\ calls' = Called(calls, "engine")
                   /\ UNCHANGED <<out_buf, out_end>>
              ELSE \/ /\ error' = Throw("bad_alloc", "std::bad_alloc", 0)
                      /\ pc' = "raised"
                      /\ calls' = Called(calls, "engine")
                      /\ UNCHANGED <<out_buf, out_end>>
                   \/ /\ out_buf' = "heap"
                      /\ out_end' = DynSize(r.size)
                      /\ calls' = Called(Called(calls, "engine"), "new_jchar")
                      /\ pc' = "long"
                      /\ error' = error
    /\ UNCHANGED <<text, stage, fn, str, in_begin, out, result>>
    /\ UNCHANGED decVars

ToJstringLong ==
    /\ fn = "to_jstring" /\ pc = "long"
    /\ \E r \in {to_utf16(str.data, in_begin, out, out_end)} :
           /\ in_begin' = r.in
           /\ out' = r.out
           /\ consumed' = r.in
           /\ calls' = Called(calls, "engine")
           /\ IF r.retcode # 0
              THEN /\ error' = Throw("runtime_error",
                         "Failure when converting long string to UTF-16", r.retcode)
                   /\ pc' = "raised"
              ELSE IF r.in # Len(str.data)
              THEN /\ error' = Throw("abort", "REALM_ASSERT(in_begin == in_end)", 0)
                   /\ pc' = "terminated"
              ELSE /\ error' = error
                   /\ pc' = "transcode_complete"
    /\ UNCHANGED <<text, stage, fn, str, out_buf, out_end, result>>
    /\ UNCHANGED decVars

ToJstringComplete ==
    /\ fn = "to_jstring" /\ pc = "transcode_complete"
    /\ LET out_size == OutSize(Len(out), 0)
       IN  IF out_size > JSIZE_MAX
           THEN /\ error' = Throw("runtime_error", "String size overflow", 0)
                /\ pc' = "raised"
                /\ UNCHANGED <<result, calls>>
           ELSE /\ \E g \in Uninit : result' = Handle(Units(out, out_size, g))
                /\ calls' = Called(calls, "NewString")
                /\ pc' = "returned"
                /\ error' = error
    /\ UNCHANGED <<text, stage, fn, str, in_begin, out_buf, out_end, out, consumed>>
    /\ UNCHANGED decVars

\* ------------------------------------------------------------------------
\* JStringCharsAccessor and JStringAccessor
\* ------------------------------------------------------------------------

\* ~JStringCharsAccessor(): runs when a constructed accessor leaves scope.
DestroyChars(c) ==
    IF delete_jstring_ref
    THEN Called(Called(c, "ReleaseStringChars"), "DeleteLocalRef")
    ELSE Called(c, "ReleaseStringChars")

\* Mutant of ProjectedSize: three bytes for each unit.
ProjectedSizeOfBmp(size) == size * 3

\* buf_size = chars.size() * 4
ProjectedSize(size) == size * 4

\* Mutant of InvalidArgument: the encoder's kind of error.
InvalidArgumentAsRuntime(msg, code) == Throw("runtime_error", msg, code)

\* throw util::invalid_argument(string_to_hex(msg, ..., error_code))
InvalidArgument(msg, code) == Throw("invalid_argument", msg, code)

\* Mutant of FullyConsumed: the cursor is not compared.
FullyConsumedUnchecked(in, in_end) == TRUE

\* !(in_begin != in_end)
FullyConsumed(in, in_end) == in = in_end

\* Mutant of ZeroFill: the buffer is left as the transcoder left it.
ZeroFillSkipped(buf, from) == buf

\* memset(tmp_char_array + m_size, 0, buf_size - m_size)
ZeroFill(buf, from) == SubSeq(buf, 1, from) \o [i \in 1..(Len(buf) - from) |-> 0]

\* A fresh allocation of size elements, each holding g.
Fresh(size, g) == [i \in 1..size |-> g]

\* The allocation buf after to_utf8 wrote w at its start.
Stored(buf, w) == w \o SubSeq(buf, Len(w) + 1, Len(buf))

AccessorNull ==
    /\ fn = "JStringAccessor" /\ pc = "entry"
    /\ jstr.null
    /\ m_is_null' = TRUE
    /\ pc' = "returned"
    /\ UNCHANGED <<text, stage, fn, jstr, delete_jstring_ref, chars, buf_size,
                   m_data, m_size, consumed, calls, error>>
    /\ UNCHANGED encVars

\* JStringCharsAccessor chars(env, str, delete_jstring_ref): the member
\* initialisers call GetStringChars, then get_size; when get_size throws the
\* object was never constructed and its destructor does not run.
AccessorAcquire ==
    /\ fn = "JStringAccessor" /\ pc = "entry"
    /\ ~jstr.null
    /\ m_is_null' = FALSE
    /\ \E len \in GetStringLength(jstr) :
          IF int_cast_with_overflow_detect(len)
          THEN /\ error' = Throw("runtime_error", "String size overflow", 0)
               /\ pc' = "raised"
               /\ chars' = chars
          ELSE /\ chars' = [acquired |-> TRUE, data |-> jstr.chars, size |-> len]
               /\ pc' = "sizing"
               /\ error' = error
    /\ calls' = Called(calls, "GetStringChars")
    /\ UNCHANGED <<text, stage, fn, jstr, delete_jstring_ref, buf_size, m_data,
                   m_size, consumed>>
    /\ UNCHANGED encVars

AccessorBufSize ==
    /\ fn = "JStringAccessor" /\ pc = "sizing"
    /\ IF chars.size <= max_project_size
       THEN /\ buf_size' = ProjectedSize(chars.size)
            /\ UNCHANGED <<consumed, calls>>
       ELSE \E r \in {find_utf8_buf_size(chars.data, 0, 0)} :
                /\ buf_size' = r.size
                /\ consumed' = r.in
                /\ calls' = Called(calls, "engine")
    /\ pc' = "alloc"
    /\ UNCHANGED <<text, stage, fn, jstr, delete_jstring_ref, chars, m_is_null,
                   m_data, m_size, error>>
    /\ UNCHANGED encVars

AccessorAlloc ==
    /\ fn = "JStringAccessor" /\ pc = "alloc"
    /\ \/ /\ error' = Throw("bad_alloc", "std::bad_alloc", 0)
          /\ calls' = DestroyChars(calls)
          /\ pc' = "raised"
          /\ m_data' = m_data
       \/ /\ \E g \in Uninit : m_data' = Fresh(buf_size, g)
          /\ calls' = Called(calls, "new_char")
          /\ pc' = "transcode"
          /\ error' = error
    /\ UNCHANGED <<text, stage, fn, jstr, delete_jstring_ref, chars, buf_size,
                   m_is_null, m_size, consumed>>
    /\ UNCHANGED encVars

AccessorTranscode ==
    /\ fn = "JStringAccessor" /\ pc = "transcode"
    /\ \E r \in {to_utf8(chars.data, 0, <<>>, buf_size, 0)} :
       \E filled \in {Stored(m_data, r.out)} :
           /\ consumed' = r.in
           /\ calls' = DestroyChars(Called(calls, "engine"))
           /\ IF ~r.ok
              THEN /\ error' = InvalidArgument("Failure when converting to UTF-8",
                                               r.error_code)
                   /\ pc' = "raised"
                   /\ m_data' = filled
                   /\ m_size' = m_size
              ELSE IF ~FullyConsumed(r.in, chars.size)
              THEN /\ error' = InvalidArgument(
                         "in_begin != in_end when converting to UTF-8", r.error_code)
                   /\ pc' = "raised"
                   /\ m_data' = filled
                   /\ m_size' = m_size
              ELSE /\ m_size' = Len(r.out)
                   /\ m_data' = ZeroFill(filled, Len(r.out))
                   /\ pc' = "returned"
                   /\ error' = error
    /\ UNCHANGED <<text, stage, fn, jstr, delete_jstring_ref, chars, buf_size,
                   m_is_null>>
    /\ UNCHANGED encVars

\* ------------------------------------------------------------------------
\* Callers: the result of one direction is handed to the other
\* ------------------------------------------------------------------------

FreshEnc(s) ==
    /\ fn' = "to_jstring" /\ pc' = "entry"
    /\ str' = s
    /\ in_begin' = 0
    /\ out_buf' = "stack"
    /\ out_end' = stack_buf_size
    /\ out' = <<>>
    /\ result' = NullHandle

FreshDec(h, flag) ==
    /\ fn' = "JStringAccessor" /\ pc' = "entry"
    /\ jstr' = h
    /\ delete_jstring_ref' = flag
    /\ chars' = NoChars
    /\ buf_size' = 0
    /\ m_is_null' = FALSE
    /\ m_data' = <<>>
    /\ m_size' = 0

DecodeResult ==
    /\ stage = 1 /\ fn = "to_jstring" /\ pc = "returned"
    /\ stage' = 2
    /\ \E flag \in BOOLEAN : FreshDec(result, flag)
    /\ consumed' = 0 /\ calls' = NoCalls /\ error' = NoError
    /\ UNCHANGED text
    /\ UNCHANGED encVars

EncodeResult ==
    /\ stage = 1 /\ fn = "JStringAccessor" /\ pc = "returned"
    /\ stage' = 2
    /\ FreshEnc(IF m_is_null THEN NullString
                ELSE StringData(SubSeq(m_data, 1, m_size)))
    /\ consumed' = 0 /\ calls' = NoCalls /\ error' = NoError
    /\ UNCHANGED text
    /\ UNCHANGED decVars

\* ------------------------------------------------------------------------
\* Specification
\* ------------------------------------------------------------------------

InitEnc(s) ==
    /\ fn = "to_jstring" /\ pc = "entry"
    /\ str = s /\ in_begin = 0 /\ out_buf = "stack" /\ out_end = stack_buf_size
    /\ out = <<>> /\ result = NullHandle
    /\ jstr = NullHandle /\ delete_jstring_ref = FALSE /\ chars = NoChars
    /\ buf_size = 0 /\ m_is_null = FALSE /\ m_data = <<>> /\ m_size = 0

InitDec(h) ==
    /\ fn = "JStringAccessor" /\ pc = "entry"
    /\ jstr = h /\ delete_jstring_ref \in BOOLEAN /\ chars = NoChars
    /\ buf_size = 0 /\ m_is_null = FALSE /\ m_data = <<>> /\ m_size = 0
    /\ str = NullString /\ in_begin = 0 /\ out_buf = "stack"
    /\ out_end = stack_buf_size /\ out = <<>> /\ result = NullHandle

Init ==
    /\ stage = 1 /\ consumed = 0 /\ calls = NoCalls /\ error = NoError
    /\ \/ \E t \in Padded(CodePoints) :
             /\ text = t
             /\ InitEnc(StringData(Utf8Of(t))) \/ InitDec(Handle(Utf16Of(t)))
       \/ /\ text = Raw
          /\ \/ \E b \in Padded(Bytes8) : InitEnc(StringData(b))
             \/ \E u \in Padded(Units16) : InitDec(Handle(u))
             \/ InitEnc(NullString)
             \/ InitDec(NullHandle)

Next ==
    \/ ToJstringNull
    \/ ToJstringShort
    \/ ToJstringSize
    \/ ToJstringLong
    \/ ToJstringComplete
    \/ AccessorNull
    \/ AccessorAcquire
    \/ AccessorBufSize
    \/ AccessorAlloc
    \/ AccessorTranscode
    \/ DecodeResult
    \/ EncodeResult

Spec == Init /\ [][Next]_vars

\* ------------------------------------------------------------------------
\* Vocabulary of the properties
\* ------------------------------------------------------------------------

IsText == text # Raw

Encoding == fn = "to_jstring"

Decoding == fn = "JStringAccessor"

Ended == pc \in {"returned", "raised", "terminated"}

\* What JStringAccessor exposes: the first m_size bytes of its buffer.
Bytes == SubSeq(m_data, 1, m_size)

\* Failures of the environment rather than of the transcoding.
EnvFailure == error.kind = "bad_alloc" \/ error.msg = "String size overflow"

IsHigh(v) == v \in 55296..56319

\* Position (from 0) of the first malformation of a UTF-16 string: a
\* surrogate that is not the first half of a well-formed pair; Len(u) when
\* there is none.
RECURSIVE FirstBad(_, _)
FirstBad(u, i) ==
    IF i >= Len(u) THEN Len(u)
    ELSE IF ~IsSurrogate(u[i + 1]) THEN FirstBad(u, i + 1)
    ELSE IF IsHigh(u[i + 1]) /\ i + 1 < Len(u) /\ IsLow(u[i + 2])
         THEN FirstBad(u, i + 2)
    ELSE i

\* The only malformation is a high surrogate as the last unit.
HighAtEnd(u) ==
    /\ u # <<>>
    /\ FirstBad(u, 0) = Len(u) - 1
    /\ IsHigh(u[Len(u)])

\* The first malformation is a high surrogate followed by a unit that is
\* not a low surrogate.
HighThenOther(u) ==
    LET i == FirstBad(u, 0)
    IN  i + 1 < Len(u) /\ IsHigh(u[i + 1]) /\ ~IsLow(u[i + 2])

\* JStringAccessor got past the allocation and ran the transcoder.
Transcoded == Decoding /\ Ended /\ calls.new_char = 1

\* ------------------------------------------------------------------------
\* C1  Round trip
\* ------------------------------------------------------------------------

\* C1: decoding with JStringAccessor the string to_jstring made from UTF-8
\* bytes yields exactly those bytes with the same size; encoding with
\* to_jstring the bytes JStringAccessor made from UTF-16 units yields exactly
\* those units; null comes back as null; and for a valid Unicode text neither
\* call fails other than by a failure of the environment, the results being
\* the reference encodings of the text.
C1_RoundTrip ==
    /\ (IsText /\ Ended) => (pc = "returned" \/ (pc = "raised" /\ EnvFailure))
    /\ (stage = 2 /\ Decoding /\ pc = "returned") =>
          /\ m_is_null = str.is_null
          /\ ~str.is_null => (Bytes = str.data /\ m_size = Len(str.data))
          /\ IsText => Bytes = Utf8Of(text)
    /\ (stage = 2 /\ Encoding /\ pc = "returned") =>
          /\ result.null = jstr.null
          /\ ~jstr.null => result.chars = jstr.chars
          /\ IsText => result.chars = Utf16Of(text)

\* A text longer than 48 bytes holding a code point that needs a surrogate
\* pair has gone through to_jstring and back through JStringAccessor.
C1_Witness ==
    /\ stage = 2 /\ Decoding /\ pc = "returned" /\ IsText
    /\ Len(str.data) > stack_buf_size
    /\ \E i \in 1..Len(text) : text[i] >= 65536

\* ------------------------------------------------------------------------
\* C2  Error code of a malformed UTF-16 decode
\* ------------------------------------------------------------------------

\* C2: for a string of any length whose only malformation is a high
\* surrogate as the last unit JStringAccessor raises invalid_argument with
\* error code 6, and for one whose first malformation is a high surrogate
\* followed by a unit that is not a low surrogate it raises invalid_argument
\* with error code 7.
C2_SurrogateErrorCodes ==
    Transcoded =>
        /\ HighAtEnd(chars.data) =>
              (pc = "raised" /\ error.kind = "invalid_argument" /\ error.code = 6)
        /\ HighThenOther(chars.data) =>
              (pc = "raised" /\ error.kind = "invalid_argument" /\ error.code = 7)

\* ------------------------------------------------------------------------
\* C3  Scoped release in the decoder
\* ------------------------------------------------------------------------

\* C3: once JStringAccessor has called GetStringChars, ReleaseStringChars
\* has been called exactly once when the call returns or raises, whatever
\* the exit path, and DeleteLocalRef exactly once when the release flag is
\* true and never when it is false.
C3_ScopedRelease ==
    /\ calls.ReleaseStringChars <= calls.GetStringChars
    /\ (Decoding /\ Ended /\ calls.GetStringChars = 1) =>
          /\ calls.ReleaseStringChars = 1
          /\ calls.DeleteLocalRef = IF delete_jstring_ref THEN 1 ELSE 0

\* ------------------------------------------------------------------------
\* C4  Null handling
\* ------------------------------------------------------------------------

\* C4: to_jstring on a null StringData returns a null handle without calling
\* the engine, allocating a heap buffer or calling NewString; JStringAccessor
\* on a null handle yields a null result without GetStringChars,
\* ReleaseStringChars, DeleteLocalRef or a byte buffer, whatever the flag.
C4_NullHandling ==
    /\ (Encoding /\ str.is_null /\ pc # "entry") =>
          /\ pc = "returned" /\ result.null
          /\ calls.engine = 0 /\ calls.new_jchar = 0 /\ calls.NewString = 0
          /\ out_buf = "stack"
    /\ (Decoding /\ jstr.null /\ pc # "entry") =>
          /\ pc = "returned" /\ m_is_null
          /\ ~chars.acquired
          /\ calls.GetStringChars = 0 /\ calls.ReleaseStringChars = 0
          /\ calls.DeleteLocalRef = 0
          /\ calls.new_char = 0 /\ calls.engine = 0 /\ m_data = <<>>

\* A null StringData went through to_jstring and the null handle it returned
\* went through JStringAccessor with the release flag set.
C4_Witness ==
    /\ stage = 2 /\ Decoding /\ pc = "returned"
    /\ str.is_null /\ jstr.null /\ delete_jstring_ref

\* ------------------------------------------------------------------------
\* C5  Threshold of the encoder
\* ------------------------------------------------------------------------

\* C5: for a valid UTF-8 input to_jstring completes in the stack buffer with
\* no heap buffer when the input has at most 48 bytes and in a heap buffer
\* when it has 49 or more, and either way the units handed to NewString are
\* the reference UTF-16 encoding of the whole input.
C5_Threshold ==
    (Encoding /\ stage = 1 /\ IsText) =>
        /\ Ended => (pc = "returned" \/ error.kind = "bad_alloc")
        /\ Len(str.data) <= 48 =>
              /\ out_buf = "stack" /\ calls.new_jchar = 0
              /\ pc \in {"entry", "transcode_complete", "returned"}
        /\ (Len(str.data) >= 49 /\ pc \in {"long", "transcode_complete", "returned"}) =>
              (out_buf = "heap" /\ calls.new_jchar = 1)
        /\ pc = "returned" =>
              /\ calls.NewString = 1
              /\ result = Handle(Utf16Of(text))

\* An input of exactly 48 bytes that holds a multi-byte character was
\* returned from the stack buffer.
C5_Witness ==
    /\ Encoding /\ stage = 1 /\ IsText /\ pc = "returned"
    /\ Len(str.data) = 48 /\ Len(result.chars) < 48
    /\ out_buf = "stack"

\* ------------------------------------------------------------------------
\* C6  Zero fill
\* ------------------------------------------------------------------------

\* C6: after a successful JStringAccessor on a non-null handle m_size is the
\* number of bytes the transcoder wrote, at most the allocated size, and
\* every byte of the allocation from m_size on is zero.
C6_ZeroFill ==
    (Decoding /\ pc = "returned" /\ ~jstr.null) =>
        /\ Len(m_data) = buf_size
        /\ m_size <= buf_size
        /\ m_size = Len(to_utf8(chars.data, 0, <<>>, buf_size, 0).out)
        /\ \A i \in (m_size + 1)..buf_size : m_data[i] = 0

\* A successful decode that left part of its allocation unused.
C6_Witness ==
    /\ Decoding /\ pc = "returned" /\ ~jstr.null
    /\ 0 < m_size /\ m_size < buf_size

\* ------------------------------------------------------------------------
\* C7  Error kinds by direction
\* ------------------------------------------------------------------------

C8_NoSilentTruncation ==
    /\ (Encoding /\ pc = "returned" /\ ~str.is_null) =>
          (in_begin = Len(str.data) /\ consumed = Len(str.data))
    /\ (Decoding /\ pc = "returned" /\ ~jstr.null) =>
          /\ consumed = Len(jstr.chars)
          /\ chars.size > max_project_size =>
                find_utf8_buf_size(chars.data, 0, 0).in = chars.size
    /\ pc # "terminated"

\* The decoder's sizing of an input longer than 48 units stopped at a
\* malformed sequence and the call ended by raising.
C8_Witness ==
    /\ Transcoded /\ pc = "raised"
    /\ chars.size > max_project_size
    /\ find_utf8_buf_size(chars.data, 0, 0).in < chars.size

\* ------------------------------------------------------------------------
\* C9  Sufficiency of the 4x projection
\* ------------------------------------------------------------------------

\* C9: for a string of at most 48 units, well-formed or not, JStringAccessor
\* never raises with an insufficient-output-space code (1 to 4); a failure of
\* the transcoding carries a surrogate code (5, 6 or 7) and was reported by
\* the engine as invalid input at the unit where it stopped.
C9_ProjectionSuffices ==
    (Transcoded /\ chars.size <= max_project_size) =>
        /\ pc = "raised" =>
              /\ error.code \in {5, 6, 7}
              /\ error.msg = "Failure when converting to UTF-8"
              /\ consumed = FirstBad(chars.data, 0)
        /\ pc = "returned" => FirstBad(chars.data, 0) = chars.size

\* A malformed string of exactly 48 units was refused.
C9_Witness ==
    /\ Transcoded /\ pc = "raised"
    /\ chars.size = max_project_size

\* ------------------------------------------------------------------------
\* C10  Output bounds of the encoder
\* ------------------------------------------------------------------------

\* C10: in to_jstring the output cursor stays within the current buffer, the
\* stack buffer having 48 units; when the heap path is taken the capacity of
\* the heap buffer is at least the units already produced plus the units the
\* rest of the input converts to, so the resumed conversion never stops for
\* lack of room.
C10_OutputBounds ==
    Encoding =>
        /\ 0 <= Len(out) /\ Len(out) <= out_end
        /\ out_buf = "stack" => out_end = stack_buf_size
        /\ pc = "long" =>
              /\ out_buf = "heap"
              /\ out_end >= Len(out)
                    + Len(to_utf16(str.data, in_begin, <<>>, SIZE_MAX).out)
        /\ (out_buf = "heap" /\ Ended) =>
              (error.kind = "runtime_error" \/ in_begin = Len(str.data))
        /\ pc # "terminated"

\* A conversion of more than 48 units completed in the heap buffer.
C10_Witness ==
    /\ Encoding /\ pc = "returned" /\ out_buf = "heap"
    /\ Len(out) > stack_buf_size

====
